---- MODULE Spec2Model ----
(***************************************************************************)
(* TcpDuplexConnection of rsocket-tcp-client (RSocketTcpClient.js): the    *)
(* duplex connection over one socket, its frame reassembly, the fan-out to *)
(* receivers, the fan-in of producers and the close / error lifecycle;     *)
(* and RSocketTcpClient.connect(), the connector that constructs it.       *)
(*                                                                         *)
(* JavaScript runs every handler to completion on one thread, so each      *)
(* action below is one whole handler: the state operators (close,          *)
(* _handleError, _writeFrame, ...) map a connection record to the record   *)
(* the method leaves behind, and an action commits the result.            *)
(***************************************************************************)
EXTENDS Integers, Sequences, FiniteSets, TLC

\* ------------------------------------------------------------- bounds
\* Frames the peer serializes onto the wire.
MaxFrames == 2
\* Calls of sendOne.
MaxSendOne == 1
\* Frames one producer emits.
MaxEmit == 2
\* Subscriptions of the Future that connect() returns.
MaxAttempts == 2

\* The subjects that subscribe to receive(), the Flowables passed to send().
Receivers == {"r1", "r2"}
Producers == {"A", "B"}

\* ------------------------------------------------------------- frames
\* A Frame is an object with a type and opaque content.
FrameTypes == {1, 2}
Frame(t, d) == [type |-> t, data |-> d]
NoFrame == Frame(0, <<>>)
NoErr == "none"

\* The frames the peer may serialize: two well-formed frames of different
\* lengths and one whose type the codec rejects.
InFrames == {Frame(1, <<>>), Frame(2, <<7>>), Frame(9, <<>>)}
\* The frames handed to sendOne: a well-formed one and one the codec rejects.
OutFrames == {Frame(1, <<5>>), Frame(9, <<>>)}
\* The i-th frame producer p emits.
ProducerId(p) == IF p = "A" THEN 1 ELSE 2
ProducerFrame(p, i) == Frame(2, <<ProducerId(p), i>>)

\* ------------------------------------------------------------- codec
\* rsocket-core: the length prefix is an unsigned 24 bit big-endian integer.
UINT24_SIZE == 3
writeUInt24BE(n) == <<(n \div 65536) % 256, (n \div 256) % 256, n % 256>>
readUInt24BE(buf, offset) ==
  buf[offset + 1] * 65536 + buf[offset + 2] * 256 + buf[offset + 3]

\* The codec raises on a frame (or a payload) whose type it does not know.
ValidType(t) == t \in FrameTypes
serializeFrame(frame) == <<frame.type>> \o frame.data
deserializeFrame(bytes) == Frame(bytes[1], Tail(bytes))

serializeFrameWithLength(frame) ==
  writeUInt24BE(Len(serializeFrame(frame))) \o serializeFrame(frame)

\* extract(bytes) -> (frames, remainder): every complete length-prefixed
\* frame, in order, and the trailing bytes of an incomplete one; error when a
\* complete payload does not decode.
RECURSIVE deserializeFrames(_)
deserializeFrames(buf) ==
  IF Len(buf) < UINT24_SIZE
  THEN [frames |-> <<>>, remaining |-> buf, error |-> FALSE]
  ELSE LET n == readUInt24BE(buf, 0)
           frameEnd == UINT24_SIZE + n
       IN IF Len(buf) < frameEnd
          THEN [frames |-> <<>>, remaining |-> buf, error |-> FALSE]
          ELSE LET payload == SubSeq(buf, UINT24_SIZE + 1, frameEnd)
               IN IF n = 0 \/ ~ValidType(payload[1])
                  THEN [frames |-> <<>>, remaining |-> buf, error |-> TRUE]
                  ELSE LET rest == deserializeFrames(SubSeq(buf, frameEnd + 1, Len(buf)))
                       IN [frames |-> <<deserializeFrame(payload)>> \o rest.frames,
                           remaining |-> rest.remaining,
                           error |-> rest.error]

\* The bytes of a whole frame sequence, as the peer writes them.
RECURSIVE SerializeAll(_)
SerializeAll(fs) ==
  IF fs = <<>> THEN <<>> ELSE serializeFrameWithLength(Head(fs)) \o SerializeAll(Tail(fs))

\* ------------------------------------------------------------- helpers
InSeq(x, sq) == \E i \in 1..Len(sq) : sq[i] = x
\* Set.add / Set.delete on an insertion-ordered set.
SetAdd(sq, x) == IF InSeq(x, sq) THEN sq ELSE Append(sq, x)
SetDelete(sq, x) == SelectSeq(sq, LAMBDA y : y # x)

\* One observable effect of a handler: a call on a receiver, on a sender's
\* subscription, on the close Deferred or on the socket.
Ev(kind, who, frame, err) == [ev |-> kind, who |-> who, frame |-> frame, err |-> err]

\* ------------------------------------------------------------- state
VARIABLES
  active,      \* this._active
  buffer,      \* this._buffer: bytes not yet resolved into a frame
  resolves,    \* calls of this._close.resolve(); onClose() is resolved iff > 0
  receivers,   \* this._receivers, in insertion order
  senders,     \* this._senders, in insertion order
  listening,   \* the connection's listeners are attached to the socket
  ended,       \* calls of this._socket.end()
  writes,      \* the buffers passed to this._socket.write, in order
  seen,        \* per receiver: the calls made on it, in order
  cancels,     \* per producer: calls of its subscription's cancel()
  extracted,   \* the frames _readFrames has returned, in order
  out,         \* the effects of the last operation, in order
  thrown,      \* the error the last operation let escape to its caller
  reg,         \* per receiver: what it had at its current registration
  wire,        \* the bytes the peer has written and the socket not yet emitted
  sentFrames,  \* the frames the peer serialized
  pstate,      \* per producer: idle, active, completed, errored
  emitted,     \* per producer: frames emitted so far
  sendOnes,    \* calls of sendOne so far
  attempt      \* per connect attempt: its socket, listeners and subscriber

connVars == <<active, buffer, resolves, receivers, senders, listening, ended,
              writes, seen, cancels, extracted, out, thrown>>
envVars == <<reg, wire, sentFrames, pstate, emitted, sendOnes>>
vars == <<connVars, envVars, attempt>>

\* The connection (and what it has done to its collaborators) as one record.
St ==
  [active |-> active, buffer |-> buffer, resolves |-> resolves,
   receivers |-> receivers, senders |-> senders, listening |-> listening,
   ended |-> ended, writes |-> writes, seen |-> seen, cancels |-> cancels,
   extracted |-> extracted, out |-> <<>>, thrown |-> NoErr]

Commit(s) ==
  /\ active' = s.active
  /\ buffer' = s.buffer
  /\ resolves' = s.resolves
  /\ receivers' = s.receivers
  /\ senders' = s.senders
  /\ listening' = s.listening
  /\ ended' = s.ended
  /\ writes' = s.writes
  /\ seen' = s.seen
  /\ cancels' = s.cancels
  /\ extracted' = s.extracted
  /\ out' = s.out
  /\ thrown' = s.thrown
  /\ UNCHANGED attempt

\* ------------------------------------------------------------- methods
\* One call on receiver r (subscriber.onNext / onError / onComplete).
Notify(s, r, kind, frame, err) ==
  [s EXCEPT !.out = Append(@, Ev(kind, r, frame, err)),
            !.seen[r] = Append(@, Ev(kind, r, frame, err))]

\* this._receivers.forEach(subscriber => subscriber.<kind>(...))
RECURSIVE NotifyAll(_, _, _, _, _)
NotifyAll(s, rs, kind, frame, err) ==
  IF rs = <<>> THEN s
  ELSE NotifyAll(Notify(s, Head(rs), kind, frame, err), Tail(rs), kind, frame, err)

\* this._senders.forEach(subscription => subscription.cancel())
RECURSIVE CancelAll(_, _)
CancelAll(s, ps) ==
  IF ps = <<>> THEN s
  ELSE CancelAll([s EXCEPT !.cancels[Head(ps)] = @ + 1,
                           !.out = Append(@, Ev("cancel", Head(ps), NoFrame, NoErr))],
                 Tail(ps))

\* close that forgets the senders instead of cancelling them.
closeKeepsProducers(s) ==
  IF ~s.active THEN s
  ELSE LET s1 == [s EXCEPT !.active = FALSE,
                           !.resolves = @ + 1,
                           !.out = Append(@, Ev("resolve", "close", NoFrame, NoErr))]
           s2 == NotifyAll(s1, s1.receivers, "onComplete", NoFrame, NoErr)
       IN [s2 EXCEPT !.receivers = <<>>,
                     !.senders = <<>>,
                     !.listening = FALSE,
                     !.ended = @ + 1,
                     !.out = @ \o <<Ev("removeAllListeners", "socket", NoFrame, NoErr),
                                    Ev("end", "socket", NoFrame, NoErr)>>]

\* close that leaves the close notification unresolved.
closeWithoutResolve(s) ==
  IF ~s.active THEN s
  ELSE LET s1 == [s EXCEPT !.active = FALSE]
           s2 == NotifyAll(s1, s1.receivers, "onComplete", NoFrame, NoErr)
           s3 == [s2 EXCEPT !.receivers = <<>>]
           s4 == CancelAll(s3, s3.senders)
       IN [s4 EXCEPT !.senders = <<>>,
                     !.listening = FALSE,
                     !.ended = @ + 1,
                     !.out = @ \o <<Ev("removeAllListeners", "socket", NoFrame, NoErr),
                                    Ev("end", "socket", NoFrame, NoErr)>>]

\* close without its guard on this._active.
closeUnguarded(s) ==
  LET s1 == [s EXCEPT !.active = FALSE,
                      !.resolves = @ + 1,
                      !.out = Append(@, Ev("resolve", "close", NoFrame, NoErr))]
      s2 == NotifyAll(s1, s1.receivers, "onComplete", NoFrame, NoErr)
      s3 == [s2 EXCEPT !.receivers = <<>>]
      s4 == CancelAll(s3, s3.senders)
  IN [s4 EXCEPT !.senders = <<>>,
                !.listening = FALSE,
                !.ended = @ + 1,
                !.out = @ \o <<Ev("removeAllListeners", "socket", NoFrame, NoErr),
                               Ev("end", "socket", NoFrame, NoErr)>>]

close(s) ==
  IF ~s.active THEN s
  ELSE LET s1 == [s EXCEPT !.active = FALSE,
                           !.resolves = @ + 1,
                           !.out = Append(@, Ev("resolve", "close", NoFrame, NoErr))]
           s2 == NotifyAll(s1, s1.receivers, "onComplete", NoFrame, NoErr)
           s3 == [s2 EXCEPT !.receivers = <<>>]
           s4 == CancelAll(s3, s3.senders)
       IN [s4 EXCEPT !.senders = <<>>,
                     !.listening = FALSE,
                     !.ended = @ + 1,
                     !.out = @ \o <<Ev("removeAllListeners", "socket", NoFrame, NoErr),
                                    Ev("end", "socket", NoFrame, NoErr)>>]

\* _handleError that closes before it notifies the receivers.
_handleErrorClosesFirst(s, error) ==
  NotifyAll(close(s), close(s).receivers, "onError", NoFrame, error)

_handleError(s, error) ==
  close(NotifyAll(s, s.receivers, "onError", NoFrame, error))

\* _handleEnd that treats 'end' like a bare 'close'.
_handleEndJustCloses(s) == close(s)

_handleEnd(s) == _handleError(s, "closedUnexpectedly")

\* _writeFrame without its try / catch: the error escapes to the caller.
_writeFrameNoCatch(s, frame, writeThrows) ==
  IF ~ValidType(frame.type) THEN [s EXCEPT !.thrown = "serializeError"]
  ELSE [s EXCEPT !.writes = Append(@, serializeFrameWithLength(frame)),
                 !.out = Append(@, Ev("write", "socket", frame, NoErr)),
                 !.thrown = IF writeThrows THEN "writeError" ELSE NoErr]

\* serializeFrameWithLength raises on a frame it cannot encode; socket.write
\* raises when writeThrows. Either lands in the catch.
_writeFrame(s, frame, writeThrows) ==
  IF ~ValidType(frame.type) THEN _handleError(s, "serializeError")
  ELSE LET s1 == [s EXCEPT !.writes = Append(@, serializeFrameWithLength(frame)),
                           !.out = Append(@, Ev("write", "socket", frame, NoErr))]
       IN IF writeThrows THEN _handleError(s1, "writeError") ELSE s1

sendOne(s, frame, writeThrows) == _writeFrame(s, frame, writeThrows)

\* The subscription handed to a subscriber of receive().
request(s, r) == [s EXCEPT !.receivers = SetAdd(@, r)]
\* A cancel that leaves the subject registered.
cancelKeepsReceiver(s, r) == s

cancel(s, r) == [s EXCEPT !.receivers = SetDelete(@, r)]

\* _readFrames that leaves the bytes of the frames it returned in the buffer.
_readFramesKeepsReturned(s, chunk) ==
  LET d == deserializeFrames(s.buffer \o chunk)
  IN IF d.error THEN [state |-> s, frames |-> <<>>, error |-> TRUE]
     ELSE [state |-> [s EXCEPT !.buffer = @ \o chunk, !.extracted = @ \o d.frames],
           frames |-> d.frames, error |-> FALSE]

\* _readFrames that holds every frame back until no partial frame follows it.
_readFramesWhenDrained(s, chunk) ==
  LET d == deserializeFrames(s.buffer \o chunk)
  IN IF d.error THEN [state |-> s, frames |-> <<>>, error |-> TRUE]
     ELSE IF d.remaining # <<>>
     THEN [state |-> [s EXCEPT !.buffer = @ \o chunk], frames |-> <<>>,
           error |-> FALSE]
     ELSE [state |-> [s EXCEPT !.buffer = <<>>, !.extracted = @ \o d.frames],
           frames |-> d.frames, error |-> FALSE]

\* _readFrames without the partial frame kept from the chunks before.
_readFramesDropsBuffer(s, chunk) ==
  LET d == deserializeFrames(chunk)
  IN IF d.error
     THEN [state |-> s, frames |-> <<>>, error |-> TRUE]
     ELSE [state |-> [s EXCEPT !.buffer = d.remaining,
                               !.extracted = @ \o d.frames],
           frames |-> d.frames, error |-> FALSE]

_readFrames(s, chunk) ==
  LET d == deserializeFrames(s.buffer \o chunk)
  IN IF d.error
     THEN [state |-> s, frames |-> <<>>, error |-> TRUE]
     ELSE [state |-> [s EXCEPT !.buffer = d.remaining,
                               !.extracted = @ \o d.frames],
           frames |-> d.frames, error |-> FALSE]

\* What a receiver's onNext callback does before it returns: nothing, a
\* close() of the connection, a cancel of its own subscription, or an
\* exception. onError and onComplete callbacks return without calling back
\* into the connection.
Reactions == {"none", "close", "cancel", "throw"}
NoReaction == [r \in Receivers |-> "none"]

\* The broadcast of a frame that stops after the first receiver.
forEachOnNextFirstOnly(s, rs, frame, react) ==
  IF rs = <<>> THEN s ELSE Notify(s, Head(rs), "onNext", frame, NoErr)

\* this._receivers.forEach(subscriber => subscriber.onNext(frame)): rs is the
\* set as the loop found it; a receiver removed before its turn is skipped,
\* and an exception ends the loop.
RECURSIVE forEachOnNext(_, _, _, _)
forEachOnNext(s, rs, frame, react) ==
  IF rs = <<>> \/ s.thrown # NoErr THEN s
  ELSE LET r == Head(rs)
       IN IF ~InSeq(r, s.receivers) THEN forEachOnNext(s, Tail(rs), frame, react)
          ELSE LET s1 == Notify(s, r, "onNext", frame, NoErr)
                   s2 == CASE react[r] = "close" -> close(s1)
                           [] react[r] = "cancel" -> cancel(s1, r)
                           [] react[r] = "throw" -> [s1 EXCEPT !.thrown = "receiverError"]
                           [] OTHER -> s1
               IN forEachOnNext(s2, Tail(rs), frame, react)

\* frames.forEach(frame => ...): the callbacks of the at-th frame react.
RECURSIVE forEachFrame(_, _, _, _, _)
forEachFrame(s, frames, k, react, at) ==
  IF k > Len(frames) \/ s.thrown # NoErr THEN s
  ELSE forEachFrame(
         forEachOnNext(s, s.receivers, frames[k], IF k = at THEN react ELSE NoReaction),
         frames, k + 1, react, at)

\* _handleData whose catch drops the error.
_handleDataSwallowsError(s, chunk, react, at) ==
  LET rf == _readFrames(s, chunk)
  IN IF rf.error THEN rf.state
     ELSE forEachFrame(rf.state, rf.frames, 1, react, at)

_handleData(s, chunk, react, at) ==
  LET rf == _readFrames(s, chunk)
  IN IF rf.error
     THEN close(_handleError(rf.state, "decodeError"))
     ELSE LET s1 == forEachFrame(rf.state, rf.frames, 1, react, at)
          IN IF s1.thrown # NoErr
             THEN close(_handleError([s1 EXCEPT !.thrown = NoErr], s1.thrown))
             ELSE s1

\* send(frames): frames.subscribe({...}). onSubscribe keeps the subscription,
\* requests Number.MAX_SAFE_INTEGER and only then adds the subscription to
\* this._senders; a producer may emit, complete or fail inside that request.
\* The producer emits k frames there (the write of the failAt-th raises) and
\* then signals terminal.
\* onNext that writes only for a subscription already in this._senders.
sendOnNextIfRegistered(s, p, i, writeThrows) ==
  IF InSeq(p, s.senders) THEN _writeFrame(s, ProducerFrame(p, i), writeThrows) ELSE s

sendOnNext(s, p, i, writeThrows) == _writeFrame(s, ProducerFrame(p, i), writeThrows)
sendOnComplete(s, p) == [s EXCEPT !.senders = SetDelete(@, p)]
sendOnError(s, error) == _handleError(s, error)

RECURSIVE requestMax(_, _, _, _, _)
requestMax(s, p, i, k, failAt) ==
  IF i > k THEN s
  ELSE requestMax(sendOnNext(s, p, i, i = failAt), p, i + 1, k, failAt)

send(s, p, k, failAt, terminal) ==
  LET s1 == requestMax(s, p, 1, k, failAt)
      s2 == CASE terminal = "complete" -> sendOnComplete(s1, p)
              [] terminal = "error" -> sendOnError(s1, "producerError")
              [] OTHER -> s1
  IN [s2 EXCEPT !.senders = SetAdd(@, p)]

\* ------------------------------------------------------------- connector
\* RSocketTcpClient.connect(): every subscription of the Future it returns
\* opens a socket of its own.
Attempts == 1..MaxAttempts
\* The errors a socket may report.
SocketErrors == {"ECONNREFUSED", "ETIMEDOUT"}
SocketEv(ev, error) == [ev |-> ev, error |-> error]
\* One call on the Future's subscriber.
Call(call, error) == [call |-> call, error |-> error]

\* An attempt nobody has subscribed to yet.
NoAttempt ==
  [subscribed |-> FALSE,   \* the Future's source has run: the socket exists
   events |-> <<>>,        \* the 'connect' / 'error' events the socket emitted
   listeners |-> {},       \* the connector's listeners attached to the socket
   connListening |-> FALSE,\* a TcpDuplexConnection's listeners are attached
   calls |-> <<>>,         \* the calls made on the subscriber, in order
   connections |-> 0,      \* TcpDuplexConnections constructed on the socket
   ends |-> 0,             \* calls of socket.end()
   removedAt |-> -1]       \* events emitted when remove() first ran, -1: never

\* const onError = error => {...}
onErrorKeepsListeners(c, error) ==
  [c EXCEPT !.calls = Append(@, Call("onError", error))]

onError(c, error) ==
  [c EXCEPT !.listeners = {}, !.connListening = FALSE,
            !.calls = Append(@, Call("onError", error))]

\* const onComplete = () => {...}: the connection is constructed (and attaches
\* its own listeners) after the connector's listeners are gone.
onComplete(c) ==
  [c EXCEPT !.listeners = {}, !.connListening = TRUE,
            !.connections = @ + 1,
            !.calls = Append(@, Call("onComplete", NoErr))]

\* const remove = () => {...}: the cancellation handed to the subscriber.
remove(c) ==
  [c EXCEPT !.listeners = {}, !.connListening = FALSE, !.ends = @ + 1,
            !.removedAt = IF @ = -1 THEN Len(c.events) ELSE @]

\* The Future's source: onSubscribe is called (the subscriber may cancel
\* inside it) before the two listeners are attached.
connect(c, cancelInOnSubscribe) ==
  LET c1 == [c EXCEPT !.subscribed = TRUE,
                      !.calls = Append(@, Call("onSubscribe", NoErr))]
      c2 == IF cancelInOnSubscribe THEN remove(c1) ELSE c1
  IN [c2 EXCEPT !.listeners = @ \cup {"error", "connect"}]

\* socket.emit(ev): a listener attached with once() is detached, then called.
emit(c, ev, error) ==
  LET c1 == [c EXCEPT !.events = Append(@, SocketEv(ev, error))]
  IN IF ev \notin c.listeners THEN c1
     ELSE LET c2 == [c1 EXCEPT !.listeners = @ \ {ev}]
          IN IF ev = "error" THEN onError(c2, error) ELSE onComplete(c2)

Emitted(c, ev) == \E i \in 1..Len(c.events) : c.events[i].ev = ev

\* ------------------------------------------------------------- actions
NextCount(sq) == Len(SelectSeq(sq, LAMBDA e : e.ev = "onNext"))

\* The state the constructor leaves, and a peer that has serialized up to
\* MaxFrames frames.
Init ==
  /\ active = TRUE
  /\ buffer = <<>>
  /\ resolves = 0
  /\ receivers = <<>>
  /\ senders = <<>>
  /\ listening = TRUE
  /\ ended = 0
  /\ writes = <<>>
  /\ seen = [r \in Receivers |-> <<>>]
  /\ cancels = [p \in Producers |-> 0]
  /\ extracted = <<>>
  /\ out = <<>>
  /\ thrown = NoErr
  /\ reg = [r \in Receivers |-> [ext |-> 0, got |-> 0]]
  /\ sentFrames \in UNION {[1..k -> InFrames] : k \in 0..MaxFrames}
  /\ wire = SerializeAll(sentFrames)
  /\ pstate = [p \in Producers |-> "idle"]
  /\ emitted = [p \in Producers |-> 0]
  /\ sendOnes = 0
  /\ attempt = [a \in Attempts |-> NoAttempt]

\* A subscriber of receive() signals demand.
Request(r) ==
  /\ Commit(request(St, r))
  /\ reg' = IF InSeq(r, receivers) THEN reg
            ELSE [reg EXCEPT ![r] = [ext |-> Len(extracted), got |-> NextCount(seen[r])]]
  /\ UNCHANGED <<wire, sentFrames, pstate, emitted, sendOnes>>

\* A subscriber of receive() cancels.
Cancel(r) ==
  /\ Commit(cancel(St, r))
  /\ UNCHANGED envVars

SendOne(frame, writeThrows) ==
  /\ sendOnes < MaxSendOne
  /\ Commit(sendOne(St, frame, writeThrows))
  /\ sendOnes' = sendOnes + 1
  /\ UNCHANGED <<reg, wire, sentFrames, pstate, emitted>>

Send(p, k, failAt, terminal) ==
  /\ pstate[p] = "idle"
  /\ Commit(send(St, p, k, failAt, terminal))
  /\ pstate' = [pstate EXCEPT ![p] = CASE terminal = "complete" -> "completed"
                                       [] terminal = "error" -> "errored"
                                       [] OTHER -> "active"]
  /\ emitted' = [emitted EXCEPT ![p] = k]
  /\ UNCHANGED <<reg, wire, sentFrames, sendOnes>>

\* A subscribed producer signals later, from its own turn of the event loop;
\* a Flowable whose subscription was cancelled signals nothing more.
Emitting(p) == pstate[p] = "active" /\ cancels[p] = 0

ProducerNext(p, writeThrows) ==
  /\ Emitting(p)
  /\ emitted[p] < MaxEmit
  /\ Commit(sendOnNext(St, p, emitted[p] + 1, writeThrows))
  /\ emitted' = [emitted EXCEPT ![p] = @ + 1]
  /\ UNCHANGED <<reg, wire, sentFrames, pstate, sendOnes>>

ProducerComplete(p) ==
  /\ Emitting(p)
  /\ Commit(sendOnComplete(St, p))
  /\ pstate' = [pstate EXCEPT ![p] = "completed"]
  /\ UNCHANGED <<reg, wire, sentFrames, emitted, sendOnes>>

ProducerError(p) ==
  /\ Emitting(p)
  /\ Commit(sendOnError(St, "producerError"))
  /\ pstate' = [pstate EXCEPT ![p] = "errored"]
  /\ UNCHANGED <<reg, wire, sentFrames, emitted, sendOnes>>

\* The application calls close().
Close ==
  /\ Commit(close(St))
  /\ UNCHANGED envVars

\* The socket's events reach the connection while its listeners are attached.
SocketClose ==
  /\ listening
  /\ Commit(close(St))
  /\ UNCHANGED envVars

SocketEnd ==
  /\ listening
  /\ Commit(_handleEnd(St))
  /\ UNCHANGED envVars

SocketError ==
  /\ listening
  /\ Commit(_handleError(St, "socketError"))
  /\ UNCHANGED envVars

\* The socket emits the next n bytes of the wire as one chunk.
SocketData(n, react, at) ==
  /\ listening
  /\ n \in 1..Len(wire)
  /\ Commit(_handleData(St, SubSeq(wire, 1, n), react, at))
  /\ wire' = SubSeq(wire, n + 1, Len(wire))
  /\ UNCHANGED <<reg, sentFrames, pstate, emitted, sendOnes>>

\* The longest wire: MaxFrames frames of the longest serialized form.
MaxWire == MaxFrames * (UINT24_SIZE + 2)

\* The application's and the socket's part in the connection's lifecycle.
Lifecycle ==
  \/ Close
  \/ SocketClose
  \/ SocketEnd
  \/ SocketError

Plans == {"none", "complete", "error"}

\* One receiver reacts to the onNext calls of one data event.
OneReacts(who, what) == [r \in Receivers |-> IF r = who THEN what ELSE "none"]

\* The inbound side: receivers come and go while the socket emits the wire
\* in chunks of every size.
NextIn ==
  \/ \E r \in Receivers : Request(r)
  \/ \E r \in Receivers : Cancel(r)
  \/ \E n \in 1..MaxWire, who \in Receivers, what \in Reactions, at \in 1..MaxFrames :
        SocketData(n, OneReacts(who, what), at)
  \/ Lifecycle

SpecIn == Init /\ [][NextIn]_vars

\* The outbound side: two producers passed to send() and one receiver, on a
\* connection whose peer writes nothing.
InitOut == Init /\ sentFrames = <<>>

NextOut ==
  \/ Request("r1")
  \/ \E p \in Producers, k \in 0..MaxEmit, failAt \in 0..MaxEmit, t \in Plans :
        Send(p, k, failAt, t)
  \/ \E p \in Producers, w \in BOOLEAN : ProducerNext(p, w)
  \/ \E p \in Producers : ProducerComplete(p)
  \/ \E p \in Producers : ProducerError(p)
  \/ Lifecycle

SpecOut == InitOut /\ [][NextOut]_vars

\* Every operation of the connection, with one receiver, one producer and a
\* peer that writes at most one frame.
InitAll == Init /\ Len(sentFrames) <= 1

Next ==
  \/ Request("r1")
  \/ Cancel("r1")
  \/ \E n \in 1..MaxWire, what \in Reactions : SocketData(n, OneReacts("r1", what), 1)
  \/ \E f \in OutFrames, w \in BOOLEAN : SendOne(f, w)
  \/ \E k \in 0..MaxEmit, failAt \in 0..MaxEmit, t \in Plans : Send("A", k, failAt, t)
  \/ \E w \in BOOLEAN : ProducerNext("A", w)
  \/ ProducerComplete("A")
  \/ ProducerError("A")
  \/ Lifecycle

Spec == InitAll /\ [][Next]_vars

\* The connector: connect attempts on sockets that report 'connect' and
\* 'error' at most once each, in either order, and subscribers that cancel
\* at any moment. The connection's variables stay as constructed.
Connect(a, cancelInOnSubscribe) ==
  /\ ~attempt[a].subscribed
  /\ attempt' = [attempt EXCEPT ![a] = connect(@, cancelInOnSubscribe)]
  /\ UNCHANGED <<connVars, envVars>>

ConnectorCancel(a) ==
  /\ attempt[a].subscribed
  /\ attempt[a].removedAt = -1
  /\ attempt' = [attempt EXCEPT ![a] = remove(@)]
  /\ UNCHANGED <<connVars, envVars>>

SocketConnect(a) ==
  /\ attempt[a].subscribed
  /\ ~Emitted(attempt[a], "connect")
  /\ attempt' = [attempt EXCEPT ![a] = emit(@, "connect", NoErr)]
  /\ UNCHANGED <<connVars, envVars>>

SocketConnectError(a, error) ==
  /\ attempt[a].subscribed
  /\ ~Emitted(attempt[a], "error")
  /\ attempt' = [attempt EXCEPT ![a] = emit(@, "error", error)]
  /\ UNCHANGED <<connVars, envVars>>

NextConnect ==
  \/ \E a \in Attempts, c \in BOOLEAN : Connect(a, c)
  \/ \E a \in Attempts : ConnectorCancel(a)
  \/ \E a \in Attempts : SocketConnect(a)
  \/ \E a \in Attempts, e \in SocketErrors : SocketConnectError(a, e)

SpecConnect == InitOut /\ [][NextConnect]_vars

\* ------------------------------------------------------------- claims
Range(sq) == {sq[i] : i \in 1..Len(sq)}
Of(sq, kind) == SelectSeq(sq, LAMBDA e : e.ev = kind)
FramesOf(sq) == [i \in 1..Len(Of(sq, "onNext")) |-> Of(sq, "onNext")[i].frame]
IsPrefix(a, b) == Len(a) <= Len(b) /\ a = SubSeq(b, 1, Len(a))
ValidSequence(fs) == \A i \in 1..Len(fs) : ValidType(fs[i].type)
\* Receiver r is registered, and has been since before any frame was extracted.
FromTheStart(r) == InSeq(r, receivers) /\ reg[r].ext = 0

\* C1: however the bytes of a valid serialized frame sequence are split into
\* chunks, a receiver registered before the first chunk and never cancelled
\* has been delivered, by onNext, the frames completed so far, each once and in
\* the original order; once the whole wire has arrived, exactly the original
\* frames.
C1_ChunkingPreservesFrames ==
  \A r \in Receivers :
    (ValidSequence(sentFrames) /\ active /\ FromTheStart(r)) =>
      /\ IsPrefix(FramesOf(seen[r]), sentFrames)
      /\ wire = <<>> => FramesOf(seen[r]) = sentFrames

\* The whole wire of MaxFrames frames has arrived, the last chunk completing
\* only the last frame, and r1 has seen them all.
C1_Witness ==
  /\ active /\ FromTheStart("r1") /\ ValidSequence(sentFrames)
  /\ Len(sentFrames) = MaxFrames /\ wire = <<>>
  /\ FramesOf(seen["r1"]) = sentFrames
  /\ Len(Of(out, "onNext")) = 1

\* C5: every registered receiver has been delivered, since it registered,
\* exactly the frames extracted since then, each once and in extraction
\* order (so all receivers see the same relative order).
C5_BroadcastToAll ==
  \A r \in Receivers :
    InSeq(r, receivers) =>
      SubSeq(FramesOf(seen[r]), reg[r].got + 1, Len(FramesOf(seen[r])))
        = SubSeq(extracted, reg[r].ext + 1, Len(extracted))

\* Both receivers are registered and one chunk carrying two frames has been
\* broadcast to both.
C5_Witness ==
  /\ active /\ Len(receivers) = 2
  /\ Len(extracted) = 2
  /\ \A r \in Receivers : FramesOf(seen[r]) = extracted
  /\ Len(Of(out, "onNext")) = 4

\* The positions of out that hold a call of the given kind.
At(o, kind) == {i \in 1..Len(o) : o[i].ev = kind}
\* In o, every call of kind a comes before every call of kind b.
Before(o, a, b) == \A i \in At(o, a), j \in At(o, b) : i < j

\* C7: when the socket emits 'error' on an active connection, every receiver
\* registered at that moment is delivered onError with that error, every one
\* of those calls comes before the close notification is resolved, and the
\* connection ends closed.
C7_SocketErrorNotifiesThenResolves ==
  [][SocketError =>
       /\ \A i \in 1..Len(receivers) :
            /\ i <= Len(out')
            /\ out'[i] = Ev("onError", receivers[i], NoFrame, "socketError")
       /\ At(out', "onError") = 1..Len(receivers)
       /\ At(out', "resolve") = {Len(receivers) + 1}
       /\ ~active' /\ resolves' = 1]_vars

\* Two registered receivers were sent onError(socketError), then the close
\* notification was resolved.
C7_Witness ==
  /\ ~active /\ resolves = 1
  /\ Len(out) >= 3
  /\ out[1].ev = "onError" /\ out[1].err = "socketError"
  /\ out[2].ev = "onError" /\ out[2].err = "socketError"
  /\ out[3].ev = "resolve"

\* C8: when the socket emits 'end' on an active connection, every registered
\* receiver is delivered onError with the synthesized 'closed unexpectedly'
\* error before anything else, and then the connection closes: active is
\* false, the listeners are detached and the socket is ended.
C8_SocketEndIsUnexpectedClose ==
  [][SocketEnd =>
       /\ \A i \in 1..Len(receivers) :
            /\ i <= Len(out')
            /\ out'[i] = Ev("onError", receivers[i], NoFrame, "closedUnexpectedly")
       /\ Before(out', "onError", "onComplete")
       /\ Before(out', "onError", "removeAllListeners")
       /\ Before(out', "onError", "end")
       /\ ~active' /\ ~listening' /\ ended' = 1]_vars

\* Two registered receivers were sent onError(closedUnexpectedly) and the
\* socket was ended after that.
C8_Witness ==
  /\ ~active /\ ~listening /\ ended = 1
  /\ Len(out) >= 3
  /\ out[1].ev = "onError" /\ out[1].err = "closedUnexpectedly"
  /\ out[2].ev = "onError" /\ out[2].err = "closedUnexpectedly"
  /\ out[Len(out)].ev = "end"

\* The number of onComplete calls made on receiver r so far.
Completes(sn, r) == Len(Of(sn[r], "onComplete"))

\* C4: close() is idempotent. The first close completes every registered
\* receiver once, cancels every registered sender once and ends the socket
\* once; no receiver is ever completed twice, no sender cancelled twice, the
\* socket never ended twice; a close() on a closed connection changes nothing
\* and emits nothing, and closing twice leaves what closing once leaves.
C4_CloseIsIdempotent ==
  [][/\ (active /\ ~active') =>
          /\ \A r \in Range(receivers) : Completes(seen', r) = 1
          /\ \A p \in Range(senders) : cancels'[p] = 1
          /\ ended' = 1
     /\ \A r \in Receivers : Completes(seen', r) <= 1
     /\ \A p \in Producers : cancels'[p] <= 1
     /\ ended' <= 1
     /\ (~active /\ Close) =>
          /\ UNCHANGED <<active, buffer, resolves, receivers, senders, listening,
                         ended, writes, seen, cancels, extracted>>
          /\ out' = <<>>
     /\ close(close(St)) = close(St)]_vars

\* A closed connection whose close completed r1 and cancelled both senders,
\* and whose last operation emitted nothing.
C4_Witness ==
  /\ ~active /\ ended = 1 /\ resolves = 1
  /\ Completes(seen, "r1") = 1
  /\ cancels["A"] = 1 /\ cancels["B"] = 1
  /\ out = <<>>

\* The buffers written for producer p's frames, in write order.
WrittenFor(p) ==
  SelectSeq(writes, LAMBDA b :
    \E i \in 1..MaxEmit : b = serializeFrameWithLength(ProducerFrame(p, i)))

\* C10: on an active connection, the socket writes of each producer's frames
\* are that producer's emissions, each once and in emission order, however
\* the producers' emissions interleave.
C10_PerProducerOrder ==
  active =>
    \A p \in Producers :
      WrittenFor(p) = [i \in 1..emitted[p] |-> serializeFrameWithLength(ProducerFrame(p, i))]

\* Both producers have emitted twice, interleaved A1 B1 A2 B2.
C10_Witness ==
  /\ active
  /\ writes = <<serializeFrameWithLength(ProducerFrame("A", 1)),
                serializeFrameWithLength(ProducerFrame("B", 1)),
                serializeFrameWithLength(ProducerFrame("A", 2)),
                serializeFrameWithLength(ProducerFrame("B", 2))>>

\* The steps that take one of the close-triggering paths: an explicit
\* close(), the socket's 'close', 'end' and 'error', a producer error, a
\* serialization or write error in sendOne or in a producer's frame, a decode
\* error.
ClosingStep ==
  \/ Close
  \/ SocketClose
  \/ SocketEnd
  \/ SocketError
  \/ ProducerError("A")
  \/ ProducerNext("A", TRUE)
  \/ /\ sendOnes' # sendOnes
     /\ \E f \in OutFrames, w \in BOOLEAN : (w \/ ~ValidType(f.type)) /\ SendOne(f, w)
  \/ /\ pstate["A"] = "idle" /\ pstate'["A"] # "idle"
     /\ \E failAt \in 0..MaxEmit, t \in Plans :
          /\ failAt \in 1..emitted'["A"] \/ t = "error"
          /\ Send("A", emitted'["A"], failAt, t)
  \/ /\ Len(wire') < Len(wire)
     /\ deserializeFrames(buffer \o SubSeq(wire, 1, Len(wire) - Len(wire'))).error
     /\ \E what \in Reactions :
          SocketData(Len(wire) - Len(wire'), OneReacts("r1", what), 1)

\* C6: the close notification is resolved exactly when close() first runs:
\* it is resolved iff active is false, resolve is called at most once, and
\* every close-triggering path leaves it resolved.
C6_CloseNotification ==
  [][/\ (resolves > 0) <=> ~active
     /\ (resolves' > 0) <=> ~active'
     /\ resolves' <= 1
     /\ ClosingStep => (~active' /\ resolves' = 1)]_vars

\* The connection was closed by a decode error: r1 was sent the decode error
\* and the notification is resolved.
C6_Witness ==
  /\ ~active /\ resolves = 1
  /\ Len(out) >= 2
  /\ out[1] = Ev("onError", "r1", NoFrame, "decodeError")
  /\ out[2].ev = "resolve"

\* The error a failing _writeFrame(frame) catches.
WriteFailure(frame) == IF ~ValidType(frame.type) THEN "serializeError" ELSE "writeError"

\* What C9 asks of a step in which a write failed with error e.
UnifiedErrorPath(e) ==
  /\ thrown' = NoErr
  /\ \A r \in Range(receivers) : Ev("onError", r, NoFrame, e) \in Range(out')
  /\ ~active'

\* C9: when serialization or the socket write raises in sendOne, or in a
\* frame a send() producer emits, on an active connection, nothing is thrown
\* to the caller: every registered receiver is delivered onError with that
\* error and the connection is closed.
C9_WriteFailureTakesErrorPath ==
  [][/\ \A f \in OutFrames, w \in BOOLEAN :
          (active /\ (w \/ ~ValidType(f.type)) /\ SendOne(f, w))
            => UnifiedErrorPath(WriteFailure(f))
     /\ (active /\ ProducerNext("A", TRUE)) => UnifiedErrorPath("writeError")
     /\ \A k \in 1..MaxEmit, failAt \in 1..MaxEmit, t \in Plans :
          (active /\ failAt <= k /\ Send("A", k, failAt, t))
            => UnifiedErrorPath("writeError")]_vars

\* A socket write raised with r1 registered: r1 was sent the write error,
\* nothing was thrown and the connection is closed.
C9_Witness ==
  /\ ~active /\ thrown = NoErr
  /\ Len(out) >= 3
  /\ out[1].ev = "write"
  /\ out[2] = Ev("onError", "r1", NoFrame, "writeError")
  /\ out[3].ev = "resolve"

\* C2 as stated: once active is false no receiver is delivered onNext or
\* onError, neither by a later operation nor by the rest of the handler in
\* which close() ran.
C2_NoDeliveryOnceInactive ==
  [][/\ ~active => At(out', "onNext") \cup At(out', "onError") = {}
     /\ Before(out', "onNext", "resolve")
     /\ Before(out', "onError", "resolve")]_vars

\* C3 as stated: once close() has run, no later operation calls
\* socket.write.
C3_NoWriteAfterClose ==
  [][~active => writes' = writes]_vars

\* The calls that settle the Future of a connect attempt.
Settles(c) == SelectSeq(c.calls, LAMBDA x : x.call \in {"onComplete", "onError"})
ReportedFirst(c, ev) == c.events # <<>> /\ c.events[1].ev = ev

\* C11: a connect attempt whose socket reports 'error' before 'connect' fails
\* the future with that error, leaves none of the connector's listeners on
\* the socket and never constructs a connection, whatever the socket emits
\* later; every attempt settles its future at most once and constructs a
\* connection only when 'connect' was reported first.
C11_ConnectErrorNeverConstructs ==
  \A a \in Attempts :
    LET c == attempt[a]
    IN /\ Len(Settles(c)) <= 1
       /\ c.connections <= 1
       /\ c.connections = 1 => ReportedFirst(c, "connect")
       /\ ReportedFirst(c, "error") =>
            /\ c.connections = 0
            /\ c.listeners = {}
            /\ c.removedAt # 0 =>
                 Settles(c) = <<Call("onError", c.events[1].error)>>

\* An attempt whose socket reported 'error' and then 'connect'.
C11_Witness ==
  \E a \in Attempts :
    /\ attempt[a].events = <<SocketEv("error", "ETIMEDOUT"),
                             SocketEv("connect", NoErr)>>
    /\ attempt[a].calls = <<Call("onSubscribe", NoErr),
                            Call("onError", "ETIMEDOUT")>>
    /\ attempt[a].connections = 0

\* C12: a connect attempt whose subscriber cancels before the socket has
\* reported 'connect' or 'error' has no connector listener left on the
\* socket, has ended the socket, constructs no connection and makes no
\* onComplete or onError call on the subscriber, whatever the socket emits.
C12_CancelledAttemptStaysSilent ==
  \A a \in Attempts :
    LET c == attempt[a]
    IN c.removedAt = 0 =>
         /\ c.listeners = {}
         /\ c.ends >= 1
         /\ c.connections = 0
         /\ Settles(c) = <<>>

\* The bytes a frame takes on the wire: its length prefix and its payload.
FrameLength(frame) == UINT24_SIZE + Len(serializeFrame(frame))
\* The bytes of the wire the socket has emitted when w is still to come.
RECURSIVE WireLength(_)
WireLength(fs) ==
  IF fs = <<>> THEN 0 ELSE FrameLength(Head(fs)) + WireLength(Tail(fs))
Arrived(w) == WireLength(sentFrames) - Len(w)
\* How many of the frames fs, serialized in a row, end within k bytes.
RECURSIVE CompleteWithin(_, _)
CompleteWithin(fs, k) ==
  IF fs = <<>> \/ FrameLength(Head(fs)) > k THEN 0
  ELSE 1 + CompleteWithin(Tail(fs), k - FrameLength(Head(fs)))
\* The frames one operation delivered to receiver r by onNext.
RECURSIVE DeliveredTo(_, _)
DeliveredTo(o, r) ==
  IF o = <<>> THEN <<>>
  ELSE IF Head(o).ev = "onNext" /\ Head(o).who = r
       THEN <<Head(o).frame>> \o DeliveredTo(Tail(o), r)
       ELSE DeliveredTo(Tail(o), r)

\* C13: the handling of a data event delivers, to a receiver registered
\* before and after it, exactly the frames whose last byte is in that event's
\* chunk, in order (none when the chunk completes no frame), and to no
\* receiver a frame completed by another chunk.
C13_DeliveredWithLastByte ==
  [][wire' # wire =>
       \A due \in {SubSeq(sentFrames,
                          CompleteWithin(sentFrames, Arrived(wire)) + 1,
                          CompleteWithin(sentFrames, Arrived(wire')))} :
         \A r \in Receivers :
           \A got \in {DeliveredTo(out', r)} :
             /\ IsPrefix(got, due)
             /\ (InSeq(r, receivers) /\ InSeq(r, receivers')) => got = due]_vars

\* The last chunk completed the first frame and carried the first bytes of
\* the second, which is still to be completed.
C13_Witness ==
  /\ active /\ FromTheStart("r1") /\ Len(sentFrames) = 2
  /\ buffer # <<>> /\ wire # <<>>
  /\ DeliveredTo(out, "r1") = <<sentFrames[1]>>
  /\ FramesOf(seen["r1"]) = <<sentFrames[1]>>

\* C14: a producer that has completed, also one that completed inside the
\* request() made in onSubscribe, is not in the sender set and is not
\* cancelled by a later close(); while the connection is active the sender
\* set holds exactly the subscribed producers that have not completed.
C14_CompletionDeregisters ==
  /\ \A p \in Producers :
       pstate[p] = "completed" => (~InSeq(p, senders) /\ cancels[p] = 0)
  /\ active => Range(senders) = {p \in Producers : pstate[p] = "active"}

\* The terminal calls (onError, onComplete) made on receiver r so far.
Terminals(r) == SelectSeq(seen[r], LAMBDA e : e.ev \in {"onError", "onComplete"})

\* C15: no receiver is sent more than one terminal call: one that was sent
\* onError is not sent onComplete by the close() that follows, and one that
\* was sent onComplete is sent neither onError nor a second onComplete.
C15_OneTerminalPerReceiver ==
  \A r \in Receivers : Len(Terminals(r)) <= 1

\* C16: once the connection is closed its receiver set and its sender set
\* are empty, whatever is invoked afterwards, and every producer that was
\* ever subscribed by send() has terminated or has been cancelled.
C16_ClosedSetsStayEmpty ==
  ~active =>
    /\ receivers = <<>>
    /\ senders = <<>>
    /\ \A p \in Producers : pstate[p] = "active" => cancels[p] > 0

\* The chunk a data event carried, from the wire before and after it.
ChunkOf(w, w2) == SubSeq(w, 1, Len(w) - Len(w2))

\* C17: a data event whose chunk makes the codec reject the buffered bytes
\* calls onError with the decode error on every registered receiver, in
\* order, delivers no frame by onNext, and closes the connection exactly
\* once: one resolve of the close notification, one socket.end().
C17_DecodeErrorIsFatal ==
  [][(wire' # wire /\ deserializeFrames(buffer \o ChunkOf(wire, wire')).error) =>
       /\ \A i \in 1..Len(receivers) :
            /\ i <= Len(out')
            /\ out'[i] = Ev("onError", receivers[i], NoFrame, "decodeError")
       /\ At(out', "onError") = 1..Len(receivers)
       /\ At(out', "onNext") = {}
       /\ Cardinality(At(out', "resolve")) = 1
       /\ Cardinality(At(out', "end")) = 1
       /\ ~active' /\ resolves' = 1 /\ ended' = 1
       /\ receivers' = <<>>]_vars

\* One chunk carried a well-formed frame followed by one the codec rejects,
\* with both receivers registered: both were sent the decode error, neither
\* the well-formed frame.
C17_Witness ==
  /\ Len(sentFrames) = 2 /\ ValidType(sentFrames[1].type)
  /\ ~ValidType(sentFrames[2].type)
  /\ wire = <<>> /\ extracted = <<>> /\ ~active /\ ended = 1
  /\ Cardinality(At(out, "onError")) = 2
  /\ out[1].err = "decodeError"
  /\ \A r \in Receivers : FramesOf(seen[r]) = <<>>

\* The bytes the socket has emitted so far.
Received == SubSeq(SerializeAll(sentFrames), 1, Arrived(wire))

\* C18: as long as the bytes received hold no frame the codec rejects, the
\* frames extracted so far, serialized, followed by the buffer are exactly
\* the bytes received, and the buffer holds no complete frame.
C18_BufferIsUnconsumedTail ==
  ~deserializeFrames(Received).error =>
    /\ SerializeAll(extracted) \o buffer = Received
    /\ deserializeFrames(buffer).frames = <<>>
    /\ ~deserializeFrames(buffer).error

\* A frame has been extracted and the first bytes of the next are buffered.
C18_Witness ==
  /\ extracted # <<>> /\ buffer # <<>> /\ wire # <<>>
  /\ SerializeAll(extracted) \o buffer = Received

\* The frames one operation added to those extracted before it.
NewlyExtracted(e, e2) == SubSeq(e2, Len(e) + 1, Len(e2))

\* C19: no operation calls a receiver that is not registered when it starts
\* (one that has not signalled demand, or has cancelled: cancel deregisters);
\* the frames an operation delivers to a receiver are frames it has just
\* extracted, all of them for a receiver registered before and after it.
C19_OnlyWhileRegistered ==
  [][\A new \in {NewlyExtracted(extracted, extracted')} :
       \A r \in Receivers :
         /\ (wire' = wire /\ Cancel(r)) => ~InSeq(r, receivers')
         /\ ~InSeq(r, receivers) => seen'[r] = seen[r]
         /\ \A got \in {DeliveredTo(out', r)} :
              /\ IsPrefix(got, new)
              /\ (InSeq(r, receivers) /\ InSeq(r, receivers')) => got = new]_vars

\* r1 cancelled after the first frame and r2 signalled demand after it: of
\* the two frames extracted r1 has been delivered the first only, r2 the
\* second only, and r1 has been sent no terminal call.
C19_Witness ==
  /\ active /\ Len(extracted) = 2
  /\ ~InSeq("r1", receivers) /\ InSeq("r2", receivers)
  /\ seen["r1"] = <<Ev("onNext", "r1", extracted[1], NoErr)>>
  /\ seen["r2"] = <<Ev("onNext", "r2", extracted[2], NoErr)>>

\* The positions of o that hold a call of the given kind on who.
AtOn(o, kind, who) == {i \in At(o, kind) : o[i].who = who}

\* C20: when the socket emits 'close' on an active connection, every
\* registered receiver is sent onComplete, once, and none is sent onError,
\* every registered sender is cancelled, once, the close notification is
\* resolved and the connection ends closed.
C20_SocketCloseCompletes ==
  [][SocketClose =>
       /\ \A r \in Receivers :
            Cardinality(AtOn(out', "onComplete", r))
              = IF InSeq(r, receivers) THEN 1 ELSE 0
       /\ At(out', "onError") = {}
       /\ \A p \in Producers :
            /\ Cardinality(AtOn(out', "cancel", p))
                 = IF InSeq(p, senders) THEN 1 ELSE 0
            /\ cancels'[p] = cancels[p] + (IF InSeq(p, senders) THEN 1 ELSE 0)
       /\ Cardinality(At(out', "resolve")) = 1
       /\ resolves' = 1 /\ ~active'
       /\ receivers' = <<>> /\ senders' = <<>>]_vars

\* The connection was closed with r1 and both producers registered: r1 was
\* sent onComplete and nothing else, both producers were cancelled.
C20_Witness ==
  /\ ~active /\ resolves = 1
  /\ seen["r1"] = <<Ev("onComplete", "r1", NoFrame, NoErr)>>
  /\ Cardinality(AtOn(out, "cancel", "A")) = 1
  /\ Cardinality(AtOn(out, "cancel", "B")) = 1
  /\ At(out, "onError") = {}

====
